---- MODULE Spec2Model ----
(***************************************************************************)
(* Transaction replay engine of tx-engine (src/main.rs).                   *)
(*                                                                         *)
(* balance_accounts reads the rows of the input in order; for each row it  *)
(* calls process_tx, which mutates the account table and the index of      *)
(* disputable transactions, and then inserts the row into the index when   *)
(* it is a deposit.  One step of this module is one iteration of that      *)
(* loop.  Decimal amounts are integers (a number of the smallest unit),    *)
(* Option<Decimal> is a sequence of length 0 or 1.  The tx ids of the      *)
(* input are not assumed to be unique: the code does not check them.       *)
(*                                                                         *)
(* Besides the two maps the state records what the properties need of the  *)
(* input replayed so far: the latest row and whether it changed anything,  *)
(* how far the input follows the rows of the unit test, the sum of the     *)
(* deposits while the input has only deposits, the ids of the withdrawals, *)
(* a dispute that is directly followed by its resolve, whether the replay  *)
(* was stopped by an error of process_tx, whether a deposit replaced an    *)
(* entry of the index that was under dispute, and which entries have been  *)
(* charged back.  For the comparison with another way of building the      *)
(* index the state can keep the whole input replayed so far.               *)
(***************************************************************************)
EXTENDS Integers, Sequences, FiniteSets, TLC

\* ---------------------------------------------------------------- bounds
MaxRows == 2
MaxClient == 2
MaxTx == 2
MaxAmount == 1

Clients == 1..MaxClient
TxIds == 1..MaxTx

\* ------------------------------------------------------------ data types
None == <<>>
Some(v) == <<v>>

\* values of the amount column of a DEPOSIT / WITHDRAWAL row: empty, a
\* negative amount, the positive amounts
Amounts == {None} \cup {Some(-1)} \cup {Some(v) : v \in 1..MaxAmount}

DisputeActions == {"DISPUTE", "RESOLVE", "CHARGEBACK"}

\* a parsed row; is_disputed is not a column of the input and takes its
\* serde default
Tx(action, client, tx, amount) ==
    [action |-> action, client |-> client, tx |-> tx, amount |-> amount,
     is_disputed |-> FALSE]

is_disputable(t) == t.action = "DEPOSIT"

\* -------------------------------------------------------------- Account
total(account) == account.available + account.held

\* deposit that sets the balance instead of adding to it
deposit_overwrites(account, amount) ==
    IF ~account.is_locked
    THEN IF amount # None
         THEN [account EXCEPT !.available = amount[1]]
         ELSE account
    ELSE account

deposit(account, amount) ==
    IF ~account.is_locked
    THEN IF amount # None
         THEN [account EXCEPT !.available = @ + amount[1]]
         ELSE account
    ELSE account

\* withdraw without the check of the available funds
withdraw_unchecked(account, amount) ==
    IF ~account.is_locked
    THEN IF amount # None
         THEN [account EXCEPT !.available = @ - amount[1]]
         ELSE account
    ELSE account

withdraw(account, amount) ==
    IF ~account.is_locked
    THEN IF amount # None
         THEN IF amount[1] <= account.available
              THEN [account EXCEPT !.available = @ - amount[1]]
              ELSE account
         ELSE account
    ELSE account

\* hold that never lets available fall below zero
hold_clamped(account, amount) ==
    IF amount # None
    THEN [account EXCEPT
            !.available = IF @ - amount[1] < 0 THEN 0 ELSE @ - amount[1],
            !.held = @ + amount[1]]
    ELSE account

\* hold that, like withdraw, is skipped when the funds are not available
hold_if_funded(account, amount) ==
    IF amount # None
    THEN IF amount[1] <= account.available
         THEN [account EXCEPT !.available = @ - amount[1], !.held = @ + amount[1]]
         ELSE account
    ELSE account

hold(account, amount) ==
    IF amount # None
    THEN [account EXCEPT !.available = @ - amount[1], !.held = @ + amount[1]]
    ELSE account

\* release that gives the funds back without taking them out of held
release_keeps_held(account, amount) ==
    IF amount # None
    THEN [account EXCEPT !.available = @ + amount[1]]
    ELSE account

release(account, amount) ==
    IF amount # None
    THEN [account EXCEPT !.available = @ + amount[1], !.held = @ - amount[1]]
    ELSE account

\* chargeback that forgets to lock the account
chargeback_no_lock(account, amount) ==
    IF amount # None
    THEN [account EXCEPT !.held = @ - amount[1]]
    ELSE account

chargeback(account, amount) ==
    IF amount # None
    THEN [account EXCEPT !.held = @ - amount[1], !.is_locked = TRUE]
    ELSE account

\* ------------------------------------------------------ account table
NewAccount(client) ==
    [client |-> client, available |-> 0, held |-> 0, is_locked |-> FALSE]

ensure_account(client, accts) ==
    IF client \notin DOMAIN accts
    THEN [c \in (DOMAIN accts) \cup {client} |->
            IF c = client THEN NewAccount(client) ELSE accts[c]]
    ELSE accts

\* ---------------------------------------------------- dispute lifecycle
\* handle_dispute_action without the checks of the entry's dispute state
handle_dispute_action_unguarded(account, disputed_tx, action) ==
    CASE action = "DISPUTE" ->
            [account |-> hold(account, disputed_tx.amount),
             tx |-> [disputed_tx EXCEPT !.is_disputed = TRUE]]
      [] action = "RESOLVE" ->
            [account |-> release(account, disputed_tx.amount),
             tx |-> [disputed_tx EXCEPT !.is_disputed = FALSE]]
      [] action = "CHARGEBACK" ->
            [account |-> chargeback(account, disputed_tx.amount),
             tx |-> [disputed_tx EXCEPT !.is_disputed = FALSE]]
      [] OTHER -> [account |-> account, tx |-> disputed_tx]

\* result: the account and the indexed transaction after the call
handle_dispute_action(account, disputed_tx, action) ==
    CASE action = "DISPUTE" ->
            IF ~disputed_tx.is_disputed
            THEN [account |-> hold(account, disputed_tx.amount),
                  tx |-> [disputed_tx EXCEPT !.is_disputed = TRUE]]
            ELSE [account |-> account, tx |-> disputed_tx]
      [] action = "RESOLVE" ->
            IF disputed_tx.is_disputed
            THEN [account |-> release(account, disputed_tx.amount),
                  tx |-> [disputed_tx EXCEPT !.is_disputed = FALSE]]
            ELSE [account |-> account, tx |-> disputed_tx]
      [] action = "CHARGEBACK" ->
            IF disputed_tx.is_disputed
            THEN [account |-> chargeback(account, disputed_tx.amount),
                  tx |-> [disputed_tx EXCEPT !.is_disputed = FALSE]]
            ELSE [account |-> account, tx |-> disputed_tx]
      [] OTHER -> [account |-> account, tx |-> disputed_tx]

\* process_tx without the check that the row's client owns the entry
process_tx_any_client(t, txs, accts) ==
    LET ensured == ensure_account(t.client, accts)
        account == ensured[t.client]
    IN  CASE t.action = "DEPOSIT" ->
                [ok |-> TRUE,
                 accounts |-> [ensured EXCEPT ![t.client] = deposit(account, t.amount)],
                 disputable_txs |-> txs]
          [] t.action = "WITHDRAWAL" ->
                [ok |-> TRUE,
                 accounts |-> [ensured EXCEPT ![t.client] = withdraw(account, t.amount)],
                 disputable_txs |-> txs]
          [] t.action \in DisputeActions ->
                IF t.tx \in DOMAIN txs
                THEN IF is_disputable(txs[t.tx])
                     THEN LET r == handle_dispute_action(account, txs[t.tx], t.action)
                          IN  [ok |-> TRUE,
                               accounts |-> [ensured EXCEPT ![t.client] = r.account],
                               disputable_txs |-> [txs EXCEPT ![t.tx] = r.tx]]
                     ELSE [ok |-> TRUE, accounts |-> ensured, disputable_txs |-> txs]
                ELSE [ok |-> TRUE, accounts |-> ensured, disputable_txs |-> txs]

\* process_tx that returns an error for a withdrawal of more than is available
process_tx_rejecting(t, txs, accts) ==
    LET ensured == ensure_account(t.client, accts)
        account == ensured[t.client]
    IN  CASE t.action = "DEPOSIT" ->
                [ok |-> TRUE,
                 accounts |-> [ensured EXCEPT ![t.client] = deposit(account, t.amount)],
                 disputable_txs |-> txs]
          [] t.action = "WITHDRAWAL" ->
                [ok |-> t.amount = None \/ account.is_locked
                          \/ t.amount[1] <= account.available,
                 accounts |-> [ensured EXCEPT ![t.client] = withdraw(account, t.amount)],
                 disputable_txs |-> txs]
          [] t.action \in DisputeActions ->
                IF t.tx \in DOMAIN txs
                THEN IF is_disputable(txs[t.tx]) /\ txs[t.tx].client = t.client
                     THEN LET r == handle_dispute_action(account, txs[t.tx], t.action)
                          IN  [ok |-> TRUE,
                               accounts |-> [ensured EXCEPT ![t.client] = r.account],
                               disputable_txs |-> [txs EXCEPT ![t.tx] = r.tx]]
                     ELSE [ok |-> TRUE, accounts |-> ensured, disputable_txs |-> txs]
                ELSE [ok |-> TRUE, accounts |-> ensured, disputable_txs |-> txs]

\* result: ok when the call returns Ok(()), and the two maps after the call
process_tx(t, txs, accts) ==
    LET ensured == ensure_account(t.client, accts)
        account == ensured[t.client]
    IN  CASE t.action = "DEPOSIT" ->
                [ok |-> TRUE,
                 accounts |-> [ensured EXCEPT ![t.client] = deposit(account, t.amount)],
                 disputable_txs |-> txs]
          [] t.action = "WITHDRAWAL" ->
                [ok |-> TRUE,
                 accounts |-> [ensured EXCEPT ![t.client] = withdraw(account, t.amount)],
                 disputable_txs |-> txs]
          [] t.action \in DisputeActions ->
                IF t.tx \in DOMAIN txs
                THEN IF is_disputable(txs[t.tx]) /\ txs[t.tx].client = t.client
                     THEN LET r == handle_dispute_action(account, txs[t.tx], t.action)
                          IN  [ok |-> TRUE,
                               accounts |-> [ensured EXCEPT ![t.client] = r.account],
                               disputable_txs |-> [txs EXCEPT ![t.tx] = r.tx]]
                     ELSE [ok |-> TRUE, accounts |-> ensured, disputable_txs |-> txs]
                ELSE [ok |-> TRUE, accounts |-> ensured, disputable_txs |-> txs]

\* HashMap::insert: add the key or overwrite its value
insert(txs, key, value) ==
    [k \in (DOMAIN txs) \cup {key} |-> IF k = key THEN value ELSE txs[k]]

\* iteration that never puts a row into the index
ReplayRow_without_insert(t, txs, accts) ==
    LET r == process_tx(t, txs, accts)
    IN  IF ~r.ok
        THEN [ok |-> FALSE, accounts |-> accts, disputable_txs |-> txs]
        ELSE [ok |-> TRUE, accounts |-> r.accounts, disputable_txs |-> r.disputable_txs]

\* iteration that puts the WITHDRAWAL rows into the index as well
ReplayRow_indexing_withdrawals(t, txs, accts) ==
    LET r == process_tx(t, txs, accts)
    IN  IF ~r.ok
        THEN [ok |-> FALSE, accounts |-> accts, disputable_txs |-> txs]
        ELSE [ok |-> TRUE,
              accounts |-> r.accounts,
              disputable_txs |-> IF t.action \in {"DEPOSIT", "WITHDRAWAL"}
                                 THEN insert(r.disputable_txs, t.tx, t)
                                 ELSE r.disputable_txs]

\* one iteration of the loop of balance_accounts; `?` leaves the loop with
\* the error of process_tx
ReplayRow(t, txs, accts) ==
    LET r == process_tx(t, txs, accts)
    IN  IF ~r.ok
        THEN [ok |-> FALSE, accounts |-> accts, disputable_txs |-> txs]
        ELSE [ok |-> TRUE,
              accounts |-> r.accounts,
              disputable_txs |-> IF is_disputable(t)
                                 THEN insert(r.disputable_txs, t.tx, t)
                                 ELSE r.disputable_txs]

\* the loop of balance_accounts over the rows of an input, from given maps
RECURSIVE ReplayAll(_, _, _)
ReplayAll(rows, txs, accts) ==
    IF rows = <<>>
    THEN [ok |-> TRUE, accounts |-> accts, disputable_txs |-> txs]
    ELSE LET r == ReplayRow(Head(rows), txs, accts)
         IN  IF ~r.ok
             THEN r
             ELSE ReplayAll(Tail(rows), r.disputable_txs, r.accounts)

\* ----------------------------------------- index built before the replay
\* the other way of building the index: all the DEPOSIT rows of the input
\* enter it in a scan before the replay
RECURSIVE PreScan(_, _)
PreScan(rows, txs) ==
    IF rows = <<>>
    THEN txs
    ELSE PreScan(Tail(rows),
                 IF is_disputable(Head(rows))
                 THEN insert(txs, Head(rows).tx, Head(rows))
                 ELSE txs)

\* the replay over an index that is complete: process_tx for each row, in
\* order, and no insertion
RECURSIVE ReplayIndexed(_, _, _)
ReplayIndexed(rows, txs, accts) ==
    IF rows = <<>>
    THEN [ok |-> TRUE, accounts |-> accts, disputable_txs |-> txs]
    ELSE LET r == process_tx(Head(rows), txs, accts)
         IN  IF ~r.ok
             THEN [ok |-> FALSE, accounts |-> accts, disputable_txs |-> txs]
             ELSE ReplayIndexed(Tail(rows), r.disputable_txs, r.accounts)

ReplayEager(rows) == ReplayIndexed(rows, PreScan(rows, <<>>), <<>>)

\* -------------------------------------------------------------- output
\* the fractional digits Serialize keeps: round_dp(4)
FracDigits == 4

\* a Decimal as the output writes it: mantissa * 10^-scale
Dec(mantissa, scale) == [mantissa |-> mantissa, scale |-> scale]

\* what an amount of 1 of the replay stands for in the input file.  The
\* replay only adds, subtracts and compares amounts, so it is the same for
\* every unit; the rounding of the output is not.  The units are 1, as the
\* unit test writes its amounts, and 0.00005, an amount written with one
\* fractional digit more than the output keeps.
Units == {Dec(1, 0), Dec(5, FracDigits + 1)}

\* the Decimal that n units are
Scaled(n, unit) == Dec(n * unit.mantissa, unit.scale)

\* Decimal::round_dp: at most dp fractional digits, a midpoint goes to the
\* even neighbour
round_dp(d, dp) ==
    IF d.scale <= dp
    THEN d
    ELSE LET k == 10 ^ (d.scale - dp)
             q == d.mantissa \div k
             r == d.mantissa % k
         IN  Dec(IF 2 * r < k THEN q
                 ELSE IF 2 * r > k THEN q + 1
                 ELSE IF q % 2 = 0 THEN q ELSE q + 1,
                 dp)

\* Decimal::normalize: the same value without trailing zeros
RECURSIVE normalize(_)
normalize(d) ==
    IF d.mantissa = 0
    THEN Dec(0, 0)
    ELSE IF d.scale > 0 /\ d.mantissa % 10 = 0
         THEN normalize(Dec(d.mantissa \div 10, d.scale - 1))
         ELSE d

\* the row Serialize writes for an account whose balances count units
Serialize(account, unit) ==
    [client |-> account.client,
     available |-> normalize(round_dp(Scaled(account.available, unit), FracDigits)),
     held |-> normalize(round_dp(Scaled(account.held, unit), FracDigits)),
     total |-> normalize(round_dp(Scaled(total(account), unit), FracDigits)),
     locked |-> account.is_locked]

\* ------------------------------------------------------ the unit test
\* the rows tests::test_process_tx replays, in order
TestRows ==
    << Tx("DEPOSIT", 1, 1, Some(1)),
       Tx("WITHDRAWAL", 1, 2, Some(1)),
       Tx("DISPUTE", 1, 1, None),
       Tx("RESOLVE", 1, 1, None),
       Tx("DISPUTE", 1, 1, None),
       Tx("CHARGEBACK", 1, 1, None) >>

\* ------------------------------------------------------------- state
VARIABLES
    accounts,         \* AccountMap: client -> Account
    disputable_txs,   \* TxMap: tx id -> Tx
    nrows,            \* number of rows replayed that were not the next row
                      \* of the unit test
    last,             \* the row replayed by the latest iteration
    acted,            \* that row changed an account or the index
    test_step,        \* k when the rows replayed so far are exactly the
                      \* first k rows of the unit test, -1 otherwise
    only_deposits,    \* every row replayed so far was a DEPOSIT
    deposit_sum,      \* while only_deposits: client -> sum of the amounts
    withdrawal_ids,   \* tx ids of the WITHDRAWAL rows replayed so far
    round_trip,       \* a DISPUTE that held a deposit of an unlocked account
                      \* and the RESOLVE row that directly follows it
    failed,           \* process_tx returned an error and the replay stopped
    replaced_disputed, \* some DEPOSIT row replaced an entry of the index
                      \* while that entry was under dispute
    charged_back,     \* tx ids of the entries of the index a CHARGEBACK
                      \* row has charged back
    recorded          \* on: whether the rows replayed are kept; rows: those
                      \* rows, in order

vars == <<accounts, disputable_txs, nrows, last, acted, test_step, only_deposits,
          deposit_sum, withdrawal_ids, round_trip, failed, replaced_disputed,
          charged_back, recorded>>

NoRow == Tx("NONE", 0, 0, None)

\* the amount a row carries, 0 when the column is empty
Value(amount) == IF amount = None THEN 0 ELSE amount[1]

NoTrip == [stage |-> "none", client |-> 0, tx |-> 0,
           accounts |-> <<>>, disputable_txs |-> <<>>]

\* the entry of the index a dispute-type row of client c on tx id acts on
Eligible(c, id, txs) ==
    /\ id \in DOMAIN txs
    /\ is_disputable(txs[id])
    /\ txs[id].client = c

NextTrip(t) ==
    IF /\ t.action = "DISPUTE"
       /\ Eligible(t.client, t.tx, disputable_txs)
       /\ ~disputable_txs[t.tx].is_disputed
       /\ t.client \in DOMAIN accounts
       /\ ~accounts[t.client].is_locked
    THEN [stage |-> "disputed", client |-> t.client, tx |-> t.tx,
          accounts |-> accounts, disputable_txs |-> disputable_txs]
    ELSE IF /\ t.action = "RESOLVE"
            /\ round_trip.stage = "disputed"
            /\ round_trip.client = t.client
            /\ round_trip.tx = t.tx
         THEN [round_trip EXCEPT !.stage = "resolved"]
         ELSE NoTrip

\* the entries charged back once t is replayed: a CHARGEBACK row adds the
\* entry it charges back, a DEPOSIT row puts a new entry under its tx id
NextChargedBack(t) ==
    IF /\ t.action = "CHARGEBACK"
       /\ Eligible(t.client, t.tx, disputable_txs)
       /\ disputable_txs[t.tx].is_disputed
    THEN charged_back \cup {t.tx}
    ELSE IF is_disputable(t)
         THEN charged_back \ {t.tx}
         ELSE charged_back

\* t is the row the unit test replays next
NextOfTest(t) ==
    /\ test_step >= 0
    /\ test_step < Len(TestRows)
    /\ t = TestRows[test_step + 1]

Init ==
    /\ accounts = <<>>
    /\ disputable_txs = <<>>
    /\ nrows = 0
    /\ last = NoRow
    /\ acted = FALSE
    /\ test_step = 0
    /\ only_deposits = TRUE
    /\ deposit_sum = [c \in Clients |-> 0]
    /\ withdrawal_ids = {}
    /\ round_trip = NoTrip
    /\ failed = FALSE
    /\ replaced_disputed = FALSE
    /\ charged_back = {}
    /\ recorded = [on |-> FALSE, rows |-> <<>>]

\* one row read from the input and replayed, unless an earlier row made
\* the replay return its error; the inputs explored are the first rows of
\* the unit test (any number of them) followed by at most MaxRows rows of
\* any kind
Replay(t) ==
    /\ ~failed
    /\ NextOfTest(t) \/ nrows < MaxRows
    /\ LET r == ReplayRow(t, disputable_txs, accounts)
       IN  /\ accounts' = r.accounts
           /\ disputable_txs' = r.disputable_txs
           /\ failed' = ~r.ok
           /\ replaced_disputed' =
                 (\/ replaced_disputed
                  \/ /\ r.ok
                     /\ is_disputable(t)
                     /\ t.tx \in DOMAIN disputable_txs
                     /\ disputable_txs[t.tx].is_disputed)
           /\ acted' = (r.accounts # accounts \/ r.disputable_txs # disputable_txs)
    /\ nrows' = IF NextOfTest(t) THEN nrows ELSE nrows + 1
    /\ last' = t
    /\ test_step' = IF NextOfTest(t) THEN test_step + 1 ELSE -1
    /\ only_deposits' = (only_deposits /\ t.action = "DEPOSIT")
    /\ deposit_sum' = IF only_deposits /\ t.action = "DEPOSIT"
                      THEN [deposit_sum EXCEPT ![t.client] = @ + Value(t.amount)]
                      ELSE [c \in Clients |-> 0]
    /\ withdrawal_ids' = IF t.action = "WITHDRAWAL"
                         THEN withdrawal_ids \cup {t.tx}
                         ELSE withdrawal_ids
    /\ round_trip' = NextTrip(t)
    /\ charged_back' = NextChargedBack(t)
    /\ recorded' = IF recorded.on
                   THEN [recorded EXCEPT !.rows = Append(@, t)]
                   ELSE recorded

Deposit ==
    \E c \in Clients, id \in TxIds, a \in Amounts : Replay(Tx("DEPOSIT", c, id, a))

Withdrawal ==
    \E c \in Clients, id \in TxIds, a \in Amounts : Replay(Tx("WITHDRAWAL", c, id, a))

Dispute ==
    \E c \in Clients, id \in TxIds : Replay(Tx("DISPUTE", c, id, None))

Resolve ==
    \E c \in Clients, id \in TxIds : Replay(Tx("RESOLVE", c, id, None))

Chargeback ==
    \E c \in Clients, id \in TxIds : Replay(Tx("CHARGEBACK", c, id, None))

Next == Deposit \/ Withdrawal \/ Dispute \/ Resolve \/ Chargeback

Spec == Init /\ [][Next]_vars

\* ---------------------------------------- the input kept with the state
\* the replay of at most MaxRows rows of any kind, the rows kept in recorded
InitRecorded ==
    /\ accounts = <<>>
    /\ disputable_txs = <<>>
    /\ nrows = 0
    /\ last = NoRow
    /\ acted = FALSE
    /\ test_step = -1
    /\ only_deposits = TRUE
    /\ deposit_sum = [c \in Clients |-> 0]
    /\ withdrawal_ids = {}
    /\ round_trip = NoTrip
    /\ failed = FALSE
    /\ replaced_disputed = FALSE
    /\ charged_back = {}
    /\ recorded = [on |-> TRUE, rows |-> <<>>]

SpecRecorded == InitRecorded /\ [][Next]_vars

\* ------------------------------------ inputs without negative amounts
\* values of the amount column that are not negative: empty, zero, the
\* positive amounts
NonNegAmounts == {None} \cup {Some(v) : v \in 0..MaxAmount}

DepositNonNeg ==
    \E c \in Clients, id \in TxIds, a \in NonNegAmounts :
        Replay(Tx("DEPOSIT", c, id, a))

WithdrawalNonNeg ==
    \E c \in Clients, id \in TxIds, a \in NonNegAmounts :
        Replay(Tx("WITHDRAWAL", c, id, a))

NextNonNeg == DepositNonNeg \/ WithdrawalNonNeg \/ Dispute \/ Resolve \/ Chargeback

\* the replay of the inputs whose amounts are all non-negative
SpecNonNeg == Init /\ [][NextNonNeg]_vars

TypeOK ==
    /\ DOMAIN accounts \subseteq Clients
    /\ DOMAIN disputable_txs \subseteq TxIds
    /\ nrows \in 0..MaxRows
    /\ test_step \in (-1)..Len(TestRows)
    /\ failed \in BOOLEAN
    /\ replaced_disputed \in BOOLEAN
    /\ charged_back \subseteq DOMAIN disputable_txs
    /\ recorded.on \in BOOLEAN
    /\ Len(recorded.rows) <= MaxRows
    /\ \A c \in DOMAIN accounts : accounts[c].client = c
    /\ \A id \in DOMAIN disputable_txs :
          disputable_txs[id].tx = id /\ is_disputable(disputable_txs[id])

\* ============================================================ properties
\* the balances and the lock of an account, with the derived total
Balances(account) ==
    [available |-> account.available, held |-> account.held,
     total |-> total(account), locked |-> account.is_locked]

\* every account that exists before the step is the same after it
AccountsKept == \A c \in DOMAIN accounts : accounts'[c] = accounts[c]

\* ------------------------------------------------------------------- C1
\* C1: once a client's account is locked, replaying any further DEPOSIT,
\* WITHDRAWAL, DISPUTE, RESOLVE or CHARGEBACK row of that client, whatever
\* the index holds, leaves available, held, total and is_locked of that
\* account unchanged.
C1_LockedAccountFrozen ==
    [][\A c \in DOMAIN accounts :
          (accounts[c].is_locked /\ last'.client = c)
              => Balances(accounts'[c]) = Balances(accounts[c])]_vars

\* ------------------------------------------------------------------- C2
\* C2 as stated: from empty maps, DEPOSIT tx 1 amount 1 client 1 then DISPUTE
\* tx 1 gives client 1 available -1, held 1, total 0, unlocked; then RESOLVE
\* tx 1 gives 0, 0, 0; then DISPUTE tx 1 and CHARGEBACK tx 1 give available
\* -1, held 0, total -1, locked.
C2_WithoutWithdrawal ==
    (accounts = <<>> /\ disputable_txs = <<>>) =>
        LET rows == << Tx("DEPOSIT", 1, 1, Some(1)), Tx("DISPUTE", 1, 1, None),
                       Tx("RESOLVE", 1, 1, None), Tx("DISPUTE", 1, 1, None),
                       Tx("CHARGEBACK", 1, 1, None) >>
            After(k) == ReplayAll(SubSeq(rows, 1, k), disputable_txs, accounts).accounts[1]
        IN  /\ Balances(After(2)) =
                 [available |-> -1, held |-> 1, total |-> 0, locked |-> FALSE]
            /\ Balances(After(3)) =
                 [available |-> 0, held |-> 0, total |-> 0, locked |-> FALSE]
            /\ Balances(After(5)) =
                 [available |-> -1, held |-> 0, total |-> -1, locked |-> TRUE]

\* C2 (amended): the rows of the unit test, which withdraws the deposited
\* amount before the dispute: after DEPOSIT tx 1 amount 1, WITHDRAWAL tx 2
\* amount 1, DISPUTE tx 1 client 1 has available -1, held 1, total 0,
\* unlocked; after RESOLVE tx 1 it has 0, 0, 0; after DISPUTE tx 1 and
\* CHARGEBACK tx 1 it has available -1, held 0, total -1, locked.
C2_TestScenario ==
    /\ test_step = 3 => Balances(accounts[1]) =
          [available |-> -1, held |-> 1, total |-> 0, locked |-> FALSE]
    /\ test_step = 4 => Balances(accounts[1]) =
          [available |-> 0, held |-> 0, total |-> 0, locked |-> FALSE]
    /\ test_step = 6 => Balances(accounts[1]) =
          [available |-> -1, held |-> 0, total |-> -1, locked |-> TRUE]

\* the unit test replayed to its last row
C2_Witness ==
    /\ test_step = Len(TestRows)
    /\ last = Tx("CHARGEBACK", 1, 1, None)
    /\ accounts[1].is_locked

\* ------------------------------------------------------------------- C3
\* C3: a DISPUTE row naming a deposit of the same client that is not under
\* dispute, of amount a, sets the entry's is_disputed, takes exactly a from
\* available and adds exactly a to held; total and is_locked do not change,
\* and available is not clamped at zero.
C3_DisputeHolds ==
    [][\A c \in Clients, id \in TxIds :
          ( /\ last' = Tx("DISPUTE", c, id, None)
            /\ Eligible(c, id, disputable_txs)
            /\ ~disputable_txs[id].is_disputed )
          => LET a == Value(disputable_txs[id].amount)
             IN  /\ disputable_txs'[id] = [disputable_txs[id] EXCEPT !.is_disputed = TRUE]
                 /\ accounts'[c].available = accounts[c].available - a
                 /\ accounts'[c].held = accounts[c].held + a
                 /\ total(accounts'[c]) = total(accounts[c])
                 /\ accounts'[c].is_locked = accounts[c].is_locked]_vars

\* a dispute has just held an amount larger than what was available
C3_Witness ==
    /\ last.action = "DISPUTE"
    /\ acted
    /\ round_trip.stage = "disputed"
    /\ round_trip.client = last.client /\ round_trip.tx = last.tx
    /\ LET before == round_trip.accounts[last.client]
           a == Value(disputable_txs[last.tx].amount)
       IN  /\ a > before.available
           /\ before.available >= 0
           /\ accounts[last.client].available < 0
           /\ accounts[last.client].held = before.held + a
           /\ disputable_txs[last.tx].is_disputed

\* ------------------------------------------------------------------- C4
\* C4: for an unlocked account and a deposit of the same client that is not
\* under dispute, a DISPUTE row for that tx directly followed by a RESOLVE
\* row for it restores available, held and total of the account and the
\* entry's is_disputed flag (here: both maps as a whole) to what they were
\* before the DISPUTE.
C4_DisputeResolveRoundTrip ==
    round_trip.stage = "resolved" =>
        /\ accounts = round_trip.accounts
        /\ disputable_txs = round_trip.disputable_txs
        /\ Balances(accounts[round_trip.client]) =
              Balances(round_trip.accounts[round_trip.client])
        /\ ~disputable_txs[round_trip.tx].is_disputed

\* a deposit with an amount other than zero was disputed and then resolved
C4_Witness ==
    /\ round_trip.stage = "resolved"
    /\ last = Tx("RESOLVE", round_trip.client, round_trip.tx, None)
    /\ Value(disputable_txs[round_trip.tx].amount) > 0
    /\ accounts[round_trip.client].held = 0

\* ------------------------------------------------------------------- C5
\* C5: a CHARGEBACK row naming a deposit of the same client that is under
\* dispute, of amount a, clears the entry's is_disputed, takes exactly a
\* from held, leaves available alone (so total falls by a) and leaves the
\* account locked.
C5_ChargebackLocks ==
    [][\A c \in Clients, id \in TxIds :
          ( /\ last' = Tx("CHARGEBACK", c, id, None)
            /\ Eligible(c, id, disputable_txs)
            /\ disputable_txs[id].is_disputed
            /\ disputable_txs[id].amount # None )
          => LET a == disputable_txs[id].amount[1]
             IN  /\ disputable_txs'[id] = [disputable_txs[id] EXCEPT !.is_disputed = FALSE]
                 /\ accounts'[c].held = accounts[c].held - a
                 /\ accounts'[c].available = accounts[c].available
                 /\ total(accounts'[c]) = total(accounts[c]) - a
                 /\ accounts'[c].is_locked]_vars

\* a chargeback of a disputed deposit has just locked the account
C5_Witness ==
    /\ last.action = "CHARGEBACK"
    /\ acted
    /\ Eligible(last.client, last.tx, disputable_txs)
    /\ ~disputable_txs[last.tx].is_disputed
    /\ Value(disputable_txs[last.tx].amount) > 0
    /\ accounts[last.client].is_locked
    /\ accounts[last.client].held = 0
    /\ accounts[last.client].available = 0

\* ------------------------------------------------------------------- C6
\* C6: a WITHDRAWAL row whose amount is greater than the client's available
\* leaves the account and the index unchanged; a WITHDRAWAL row whose amount
\* is at most the available of an unlocked account takes exactly the amount
\* from available and changes nothing else.
C6_Withdrawal ==
    [][\A c \in DOMAIN accounts :
          (last'.action = "WITHDRAWAL" /\ last'.client = c /\ last'.amount # None)
          => LET v == last'.amount[1]
             IN  /\ v > accounts[c].available =>
                        /\ accounts' = accounts
                        /\ disputable_txs' = disputable_txs
                 /\ (v <= accounts[c].available /\ ~accounts[c].is_locked) =>
                        /\ accounts' = [accounts EXCEPT ![c].available = @ - v]
                        /\ disputable_txs' = disputable_txs]_vars

\* a withdrawal of 1 from an unlocked account that has 0 was dropped
C6_Witness ==
    /\ last.action = "WITHDRAWAL"
    /\ last.amount = Some(1)
    /\ ~acted
    /\ last.client \in DOMAIN accounts
    /\ accounts[last.client] =
          [client |-> last.client, available |-> 0, held |-> 0, is_locked |-> FALSE]
    /\ last.client \in {disputable_txs[id].client : id \in DOMAIN disputable_txs}

\* ------------------------------------------------------------------- C7
\* no account that exists and no entry of the index changes in the step
NoOp == AccountsKept /\ disputable_txs' = disputable_txs

\* C7 as stated: a DISPUTE row whose tx id (a) was never seen, or (b) is
\* the id of a deposit of another client, or (c) is the id of a WITHDRAWAL
\* row, changes no existing account and no entry of the index.
C7_WithdrawalIdNeverDisputable ==
    [][\A c \in Clients, id \in TxIds :
          ( /\ last' = Tx("DISPUTE", c, id, None)
            /\ \/ id \notin DOMAIN disputable_txs /\ id \notin withdrawal_ids
               \/ id \in DOMAIN disputable_txs /\ disputable_txs[id].client # c
               \/ id \in withdrawal_ids )
          => NoOp]_vars

\* C7 (amended): a DISPUTE row whose tx id (a) was never seen, or (b) is
\* the id of a deposit of another client, or (c) is the id of a WITHDRAWAL
\* row and of no DEPOSIT row, changes no existing account and no entry of
\* the index.
C7_IneligibleDisputeIsNoOp ==
    [][\A c \in Clients, id \in TxIds :
          ( /\ last' = Tx("DISPUTE", c, id, None)
            /\ \/ id \notin DOMAIN disputable_txs /\ id \notin withdrawal_ids
               \/ id \in DOMAIN disputable_txs /\ disputable_txs[id].client # c
               \/ id \in withdrawal_ids /\ id \notin DOMAIN disputable_txs )
          => NoOp]_vars

\* a client has just disputed an undisputed deposit of another client
C7_Witness ==
    /\ last.action = "DISPUTE"
    /\ last.tx \in DOMAIN disputable_txs
    /\ disputable_txs[last.tx].client # last.client
    /\ ~disputable_txs[last.tx].is_disputed
    /\ Value(disputable_txs[last.tx].amount) > 0
    /\ accounts[last.client].held = 0
    /\ accounts[disputable_txs[last.tx].client].held = 0
    /\ ~acted

\* ------------------------------------------------------------------- C8
\* C8: a DISPUTE row on an entry that is already under dispute, and a
\* RESOLVE or CHARGEBACK row on an entry that is not under dispute, leave
\* the entry's is_disputed flag and the account's available, held and
\* is_locked unchanged.
C8_IllegalTransitionIsNoOp ==
    [][\A c \in Clients, id \in DOMAIN disputable_txs :
          ( \/ last' = Tx("DISPUTE", c, id, None) /\ disputable_txs[id].is_disputed
            \/ last' = Tx("RESOLVE", c, id, None) /\ ~disputable_txs[id].is_disputed
            \/ last' = Tx("CHARGEBACK", c, id, None) /\ ~disputable_txs[id].is_disputed )
          => NoOp]_vars

\* deposit, then a chargeback of it by its owner without a dispute
C8_Witness ==
    /\ last.action = "CHARGEBACK"
    /\ ~acted
    /\ Eligible(last.client, last.tx, disputable_txs)
    /\ Value(disputable_txs[last.tx].amount) > 0
    /\ ~disputable_txs[last.tx].is_disputed
    /\ ~accounts[last.client].is_locked
    /\ accounts[last.client].held = 0

\* ------------------------------------------------------------------- C9
\* C9: after an input of DEPOSIT rows only, each client's total is the sum
\* of the amounts of its DEPOSIT rows, its held is 0 and its account is
\* unlocked.
C9_DepositsOnly ==
    only_deposits =>
        /\ \A c \in DOMAIN accounts :
              /\ total(accounts[c]) = deposit_sum[c]
              /\ accounts[c].held = 0
              /\ ~accounts[c].is_locked
        /\ \A c \in Clients \ DOMAIN accounts : deposit_sum[c] = 0

\* three deposits of one client, of different amounts, one of them
\* replacing an earlier entry of the index
C9_Witness ==
    /\ only_deposits
    /\ last.action = "DEPOSIT"
    /\ test_step = -1 /\ nrows = 2
    /\ DOMAIN accounts = {1}
    /\ DOMAIN disputable_txs = {1, 2}
    /\ disputable_txs[1].amount = Some(1)
    /\ disputable_txs[2].amount = Some(-1)
    /\ total(accounts[1]) = 1
    /\ deposit_sum[1] = 1

\* ------------------------------------------------------------------ C10
\* C10: from any reachable state, two DISPUTE rows of one client that name
\* different tx ids give the same account table and the same index,
\* whichever is replayed first.
C10_DisputesCommute ==
    \A c \in Clients, i \in TxIds, j \in TxIds :
        i < j =>
            LET di == Tx("DISPUTE", c, i, None)
                dj == Tx("DISPUTE", c, j, None)
                si == ReplayRow(di, disputable_txs, accounts)
                sj == ReplayRow(dj, disputable_txs, accounts)
            IN  ReplayRow(dj, si.disputable_txs, si.accounts)
                  = ReplayRow(di, sj.disputable_txs, sj.accounts)

\* two undisputed deposits of one client, of different amounts, one of
\* them larger than what is available: both disputes act, in either order
C10_Witness ==
    \E c \in DOMAIN accounts, i \in DOMAIN disputable_txs, j \in DOMAIN disputable_txs :
        /\ i # j
        /\ Eligible(c, i, disputable_txs) /\ Eligible(c, j, disputable_txs)
        /\ ~disputable_txs[i].is_disputed /\ ~disputable_txs[j].is_disputed
        /\ disputable_txs[i].amount # None /\ disputable_txs[j].amount # None
        /\ Value(disputable_txs[i].amount) # Value(disputable_txs[j].amount)
        /\ accounts[c].available < Value(disputable_txs[i].amount)

\* ------------------------------------------------------------------ C11
\* the value of a written Decimal, in units of 10^-(FracDigits + 1)
Written(d) == d.mantissa * 10 ^ (FracDigits + 1 - d.scale)

\* C11: for every account the replay produces, the total the output writes
\* (available + held, rounded to 4 fractional digits) is exactly the sum of
\* the available and the held the output writes for it (each rounded to 4
\* fractional digits).
C11_WrittenTotalIsSum ==
    \A c \in DOMAIN accounts, unit \in Units :
        LET row == Serialize(accounts[c], unit)
        IN  Written(row.total) = Written(row.available) + Written(row.held)

\* ------------------------------------------------------------------ C12
\* C12: is_locked only ever goes from false to true: an account is created
\* unlocked, a locked account stays locked whatever row is replayed, and
\* the only row that locks an account is a CHARGEBACK row of its client
\* that names a deposit entry of that client which is under dispute.
C12_LockMonotonic ==
    [][/\ \A c \in DOMAIN accounts' \ DOMAIN accounts : ~accounts'[c].is_locked
       /\ \A c \in DOMAIN accounts :
             /\ accounts[c].is_locked => accounts'[c].is_locked
             /\ (~accounts[c].is_locked /\ accounts'[c].is_locked) =>
                   /\ last' = Tx("CHARGEBACK", c, last'.tx, None)
                   /\ Eligible(c, last'.tx, disputable_txs)
                   /\ disputable_txs[last'.tx].is_disputed]_vars

\* an account locked by a chargeback is still locked after a later row of
\* its client has moved its funds
C12_Witness ==
    /\ last.action # "CHARGEBACK"
    /\ acted
    /\ last.client \in DOMAIN accounts
    /\ accounts[last.client].is_locked
    /\ accounts[last.client].held # 0

\* ------------------------------------------------------------------ C13
\* C13: no row makes process_tx return an error, whatever the state: not a
\* withdrawal of more than is available, not a dispute-type row that names
\* an unknown tx id or another client's deposit, not a repeated dispute, a
\* resolve or chargeback of an entry that is not under dispute, nor a row
\* of a locked account.  So every row of the input is replayed, in order,
\* and after each the account table has an account for the row's client
\* and for every client it had before.
C13_NeverAnError ==
    [][/\ ~failed'
       /\ process_tx(last', disputable_txs, accounts).ok
       /\ last'.client \in DOMAIN accounts'
       /\ DOMAIN accounts \subseteq DOMAIN accounts']_vars

\* a withdrawal of more than is available, from an account that exists,
\* was replayed: nothing changed and the replay goes on
C13_Witness ==
    /\ last.action = "WITHDRAWAL"
    /\ last.amount # None
    /\ ~acted
    /\ ~accounts[last.client].is_locked
    /\ Value(last.amount) > accounts[last.client].available
    /\ ~failed
    /\ nrows < MaxRows

\* ------------------------------------------------------------------ C14
\* the sum of the amounts of the entries ids of the index
RECURSIVE AmountSum(_)
AmountSum(ids) ==
    IF ids = {}
    THEN 0
    ELSE LET id == CHOOSE i \in ids : TRUE
         IN  Value(disputable_txs[id].amount) + AmountSum(ids \ {id})

\* the entries of client c that are under dispute
UnderDispute(c) ==
    {id \in DOMAIN disputable_txs :
        disputable_txs[id].client = c /\ disputable_txs[id].is_disputed}

C15_HeldNonNegative ==
    \A c \in DOMAIN accounts : accounts[c].held >= 0

\* funds are still held although the disputed entry they were held for
\* has been replaced in the index, so no row can release them any more
C15_Witness ==
    /\ replaced_disputed
    /\ \E c \in DOMAIN accounts :
          /\ accounts[c].held > 0
          /\ UnderDispute(c) = {}

\* ------------------------------------------------------------------ C20
\* C20: when no amount of the input is negative, every account that is not
\* locked has a total of at least 0 after every row, and the only row that
\* takes the total of an account below 0 is a CHARGEBACK row of its client,
\* which locks the account.
C20_UnlockedIsSolvent ==
    [][\A c \in DOMAIN accounts' :
          /\ ~accounts'[c].is_locked => total(accounts'[c]) >= 0
          /\ (total(accounts'[c]) < 0
                /\ (c \in DOMAIN accounts => total(accounts[c]) >= 0)) =>
                   /\ last' = Tx("CHARGEBACK", c, last'.tx, None)
                   /\ accounts'[c].is_locked]_vars

\* a chargeback has taken the total of an account below 0 and locked it,
\* while another account is unlocked and has funds
C20_Witness ==
    \E c \in DOMAIN accounts, d \in DOMAIN accounts :
        /\ accounts[c].is_locked /\ total(accounts[c]) < 0
        /\ ~accounts[d].is_locked /\ total(accounts[d]) > 0

\* ------------------------------------------------------------------ C16
\* C16: once a CHARGEBACK row has charged back a deposit entry that was
\* under dispute, no later row puts that entry under dispute again, and no
\* later DISPUTE, RESOLVE or CHARGEBACK row that names its tx id holds,
\* releases or charges back funds of any account.
C16_ChargedBackIsTerminal ==
    [][\A id \in charged_back :
          /\ ~disputable_txs'[id].is_disputed
          /\ (last'.tx = id /\ last'.action \in DisputeActions) =>
                \A c \in DOMAIN accounts :
                    Balances(accounts'[c]) = Balances(accounts[c])]_vars

C19_ClientIsolation ==
    [][LET t == last'
           r == process_tx(t, disputable_txs, accounts)
       IN  /\ accounts' = r.accounts
           /\ DOMAIN r.accounts = DOMAIN accounts \cup {t.client}
           /\ \A c \in DOMAIN accounts \ {t.client} : r.accounts[c] = accounts[c]
           /\ DOMAIN r.disputable_txs = DOMAIN disputable_txs
           /\ \A id \in DOMAIN disputable_txs :
                 r.disputable_txs[id] # disputable_txs[id] =>
                    /\ t.action \in DisputeActions
                    /\ id = t.tx
                    /\ disputable_txs[id].client = t.client
           /\ \A id \in DOMAIN disputable_txs \ {t.tx} :
                 /\ id \in DOMAIN disputable_txs'
                 /\ disputable_txs'[id] = disputable_txs[id]]_vars

\* a dispute-type row has changed its client's account and the entry it
\* names, while another client has an account with funds and an entry
C19_Witness ==
    /\ last.action \in DisputeActions
    /\ acted
    /\ \E d \in DOMAIN accounts \ {last.client} :
          /\ total(accounts[d]) # 0
          /\ \E id \in DOMAIN disputable_txs : disputable_txs[id].client = d

\* ------------------------------------------------------------------ C18
\* no two DEPOSIT rows of the input have the same tx id
UniqueDepositIds(rows) ==
    \A i \in 1..Len(rows), j \in 1..Len(rows) :
        (i < j /\ rows[i].action = "DEPOSIT" /\ rows[j].action = "DEPOSIT")
            => rows[i].tx # rows[j].tx

\* every dispute-type row comes after the DEPOSIT row whose tx id it names
DisputesFollowDeposits(rows) ==
    \A i \in 1..Len(rows), j \in 1..Len(rows) :
        (/\ rows[i].action \in DisputeActions
         /\ rows[j].action = "DEPOSIT"
         /\ rows[j].tx = rows[i].tx) => j < i

\* C18: for every input whose DEPOSIT rows have different tx ids and whose
\* DISPUTE, RESOLVE and CHARGEBACK rows each come after the DEPOSIT row
\* they name, the replay over an index built from all the DEPOSIT rows
\* before the replay ends with the same account table as the replay that
\* puts each DEPOSIT row into the index right after it is processed.
C18_EagerEqualsLazy ==
    (UniqueDepositIds(recorded.rows) /\ DisputesFollowDeposits(recorded.rows))
        => ReplayEager(recorded.rows).accounts = accounts

\* an input of that kind in which a dispute has held a deposit
C18_Witness ==
    /\ recorded.on
    /\ Len(recorded.rows) = MaxRows
    /\ UniqueDepositIds(recorded.rows)
    /\ DisputesFollowDeposits(recorded.rows)
    /\ last.action = "DISPUTE"
    /\ acted
    /\ accounts[last.client].held # 0
    /\ ReplayEager(recorded.rows).disputable_txs = disputable_txs
====
